---- MODULE Spec2Model ----
(***************************************************************************)
(* Model of backend/hello.py (Website Cloner API).                         *)
(*                                                                         *)
(* Spec          the request handlers: clone_website with its two paths    *)
(*               (clone_with_playwright, extract_website_content +         *)
(*               generate_html_with_gemini), generate_html, preview_html   *)
(*               and the process-wide html_store, for several concurrent   *)
(*               requests.                                                 *)
(* SpecCss       the external stylesheet batch of extract_website_content  *)
(*               (ThreadPoolExecutor + extract_css_from_file).             *)
(* SpecAssets    the image / icon / script collection of                   *)
(*               extract_website_content (urljoin against get_base_url).   *)
(* SpecStructure the header / nav / main / footer collection of            *)
(*               extract_website_content.                                  *)
(* SpecImport    extract_css_from_style (@import handling).                *)
(* SpecGemini    generate_html_with_gemini, statement by statement.        *)
(* SpecBundle    the content dictionary from the page to the prompt.       *)
(*                                                                         *)
(* The environment is the three collaborators of the program: the HTTP     *)
(* fetch (requests.get), the browser (Playwright) and the generative       *)
(* model (Gemini).  Their answers are chosen nondeterministically.         *)
(***************************************************************************)
EXTENDS Integers, Sequences, FiniteSets, TLC

VARIABLES
    \* ---- Spec: handlers and store
    pc,            \* pc[r]: "idle" before the request, "render" while
                   \* clone_website awaits clone_with_playwright, "done"
    is_small,      \* is_small[r]: request.is_small
    log,           \* log[r]: the calls request r has made, in order
    absorbed,      \* absorbed[r]: line 549 caught an HTTPException
    html_code,     \* html_code[r]: local html_code of clone_website
    response,      \* response[r]: what clone_website answered
    html_store,    \* the module-level dict html_store
    last_resp,     \* the answer, when the step just taken was a call of
                   \* /preview or /generate-html
    \* ---- SpecCss: the stylesheet batch
    css_links,     \* link elements found by find_all("link", rel="stylesheet")
    css_pc,        \* position inside lines 187-206
    futures,       \* futures[i]: state of the future submitted for link i
    consumed,      \* futures already yielded by as_completed
    css_files,     \* content["css_files"]
    \* ---- SpecAssets
    page_url,      \* the url given to extract_website_content
    elements,      \* the img, icon link and script elements of the page
    asset_pc,      \* position inside lines 206-236
    assets,        \* content["assets"]
    \* ---- SpecStructure
    soup,          \* the parsed document: which elements exist, with what text
    struct_pc,     \* the tag the loop of line 169 is at, then "body", "done"
    structure,     \* content["structure"]
    \* ---- SpecImport
    style_in,      \* style_content given to extract_css_from_style
    web,           \* what requests.get answers for each stylesheet url
    style_out,     \* the call of extract_css_from_style: its position, the
                   \* urls given to requests.get, css_content, the result
    \* ---- SpecGemini
    gemini_in,     \* what the model service does when it is called
    gemini_run,    \* the call of generate_html_with_gemini: its position,
                   \* html_code, the exception in flight, what it gives back
    \* ---- SpecBundle
    head,          \* what the page holds: title, meta tags, header, scripts
    bundle         \* the request: its position, the content dictionary,
                   \* the dictionary serialised into the prompt

handlerVars == << pc, is_small, log, absorbed, html_code, response,
                  html_store, last_resp >>
cssVars     == << css_links, css_pc, futures, consumed, css_files >>
assetVars   == << page_url, elements, asset_pc, assets >>
structVars  == << soup, struct_pc, structure >>
importVars  == << style_in, web, style_out >>
geminiVars  == << gemini_in, gemini_run >>
bundleVars  == << head, bundle >>
vars == << pc, is_small, log, absorbed, html_code, response, html_store,
           last_resp, css_links, css_pc, futures, consumed, css_files,
           page_url, elements, asset_pc, assets, soup, struct_pc, structure,
           style_in, web, style_out, gemini_in, gemini_run, head, bundle >>

(***************************************************************************)
(* Bounds                                                                  *)
(***************************************************************************)
MaxRuns == 2

Runs == 1 .. MaxRuns
\* the values uuid4 can return, as many as there are requests
Ids == 1 .. MaxRuns
\* an id that uuid4 never returns ("unknown-id")
UnknownId == 0

(***************************************************************************)
(* Strings whose content the code inspects are sequences of characters.    *)
(***************************************************************************)
Lower(c) ==
    CASE c = "A" -> "a" [] c = "B" -> "b" [] c = "C" -> "c" [] c = "D" -> "d"
      [] c = "E" -> "e" [] c = "F" -> "f" [] c = "G" -> "g" [] c = "H" -> "h"
      [] c = "I" -> "i" [] c = "J" -> "j" [] c = "K" -> "k" [] c = "L" -> "l"
      [] c = "M" -> "m" [] c = "N" -> "n" [] c = "O" -> "o" [] c = "P" -> "p"
      [] c = "Q" -> "q" [] c = "R" -> "r" [] c = "S" -> "s" [] c = "T" -> "t"
      [] c = "U" -> "u" [] c = "V" -> "v" [] c = "W" -> "w" [] c = "X" -> "x"
      [] c = "Y" -> "y" [] c = "Z" -> "z"
      [] OTHER -> c

StrLower(s) == [i \in 1 .. Len(s) |-> Lower(s[i])]

\* Python's `sub in s`
StrIn(sub, s) ==
    \E i \in 0 .. (Len(s) - Len(sub)) :
        \A j \in 1 .. Len(sub) : s[i + j] = sub[j]

\* the messages of the exceptions that reach the handler of
\* generate_html_with_gemini
EmptyResponseMsg ==
    << "E", "m", "p", "t", "y", " ", "r", "e", "s", "p", "o", "n", "s", "e",
       " ", "f", "r", "o", "m", " ", "G", "e", "m", "i", "n", "i" >>
EmptyCodeMsg ==
    << "G", "e", "n", "e", "r", "a", "t", "e", "d", " ", "H", "T", "M", "L",
       " ", "c", "o", "d", "e", " ", "i", "s", " ", "e", "m", "p", "t", "y" >>
NotValidMsg ==
    << "G", "e", "n", "e", "r", "a", "t", "e", "d", " ", "c", "o", "d", "e",
       " ", "i", "s", " ", "n", "o", "t", " ", "v", "a", "l", "i", "d", " ",
       "H", "T", "M", "L" >>
NoApiKeyMsg ==
    << "G", "O", "O", "G", "L", "E", "_", "A", "P", "I", "_", "K", "E", "Y",
       " ", "n", "o", "t", " ", "f", "o", "u", "n", "d" >>
\* two messages the Gemini client can raise: quota exhaustion, server error
QuotaExceededMsg ==
    << "R", "e", "s", "o", "u", "r", "c", "e", " ", "e", "x", "h", "a", "u",
       "s", "t", "e", "d", ":", " ", "q", "u", "o", "t", "a" >>
ServerErrorMsg ==
    << "I", "n", "t", "e", "r", "n", "a", "l", " ", "e", "r", "r", "o", "r" >>

\* the needles of the two substring tests (lines 371 and 523)
QuotaWord == << "q", "u", "o", "t", "a" >>
RateWord == << "r", "a", "t", "e" >>
TimeoutWord == << "t", "i", "m", "e", "o", "u", "t" >>
\* two messages Playwright can raise: a timeout, any other failure
TimeoutMsg ==
    << "T", "i", "m", "e", "o", "u", "t", " ", "6", "0", "0", "0", "0",
       "m", "s", " ", "e", "x", "c", "e", "e", "d", "e", "d", "." >>
TargetClosedMsg ==
    << "T", "a", "r", "g", "e", "t", " ", "c", "l", "o", "s", "e", "d" >>

(***************************************************************************)
(* Values                                                                  *)
(***************************************************************************)
\* An HTML document, as far as the handlers look at it: where it came from
\* and what BeautifulSoup finds for soup.body:
\*   "text"   a body element with visible text
\*   "empty"  a body element whose get_text().strip() is ""
\*   "nobody" no body element
BodyKinds == {"text", "empty", "nobody"}
Origins   == {"render", "partial", "gemini"}
Html      == [origin : Origins, body : BodyKinds]
NoHtml    == [origin |-> "none", body |-> "none"]

\* HTTPException(status_code, detail)
HTTPException(status, detail) ==
    [kind |-> "error", status |-> status, detail |-> detail,
     html |-> NoHtml, preview_id |-> 0]
NoError == [kind |-> "none", status |-> 0, detail |-> "", html |-> NoHtml,
            preview_id |-> 0]
NoResponse == NoError
\* a value returned by a function that did not raise
Returned(h) ==
    [kind |-> "ok", status |-> 200, detail |-> "", html |-> h,
     preview_id |-> 0]
WebsiteCloneResponse(h, id) ==
    [kind |-> "ok", status |-> 200, detail |-> "cloned", html |-> h,
     preview_id |-> id]

Count(s, e) == Cardinality({i \in 1 .. Len(s) : s[i] = e})

(***************************************************************************)
(* clone_with_playwright                                                   *)
(***************************************************************************)
\* What the browser does during one call:
\*   launch  launching the browser, the context or the page (lines 386-402)
\*   nav     route / goto / wait_for_load_state / evaluate / post-processing
\*           (lines 405-503)
\*   avail   what page.content() gives inside the handler of line 505
\*   close   context.close() / browser.close() in the finally block
\*   body    the body of the document the page holds
\* page.content() serialises the DOM of the page, which has a body element
RenderedBodies == {"text", "empty"}

PlaywrightOutcomes ==
    { o \in [launch : {"ok", "timeout", "error"},
             nav    : {"ok", "timeout", "error"},
             avail  : {"html", "empty", "raises"},
             close  : {"ok", "error"},
             body   : RenderedBodies] :
        /\ o.launch # "ok" =>
              o.nav = "ok" /\ o.avail = "html" /\ o.close = "ok"
                           /\ o.body = "text"
        /\ o.nav = "ok" => o.avail = "html" }

PlaywrightMsg(what) == IF what = "timeout" THEN TimeoutMsg ELSE TargetClosedMsg

\* lines 521-531: every exception leaves as an HTTPException, 504 when its
\* message mentions a timeout
PlaywrightError(error_msg) ==
    IF StrIn(TimeoutWord, StrLower(error_msg))
    THEN HTTPException(504, "Website took too long to load")
    ELSE HTTPException(500, "Error cloning website with Playwright")

\* lines 505-514: after a failed navigation the page content is returned as
\* it is when there is any, otherwise the exception is raised again
NavigationFailed(o) ==
    IF o.avail = "html"
    THEN Returned([origin |-> "partial", body |-> o.body])
    ELSE PlaywrightError(PlaywrightMsg(o.nav))

render(o) ==
    IF o.launch # "ok"
    THEN PlaywrightError(PlaywrightMsg(o.launch))
    ELSE LET inner == IF o.nav = "ok"
                      THEN Returned([origin |-> "render", body |-> o.body])
                      ELSE NavigationFailed(o)
         IN  \* finally: an exception raised while closing replaces the result
             IF o.close = "ok" THEN inner
             ELSE PlaywrightError(PlaywrightMsg(o.close))

\* everything a call of clone_with_playwright can return or raise
clone_with_playwright == { render(o) : o \in PlaywrightOutcomes }

(***************************************************************************)
(* extract_website_content, as the handlers see it                         *)
(***************************************************************************)
\* "ok": a content dict is returned; "no_page": fetch_url gave None or "";
\* "error": any other exception inside the function
ExtractOutcomes == {"ok", "no_page", "error"}

extract(e) ==
    IF e = "ok" THEN Returned(NoHtml)
    ELSE HTTPException(500, "Error extracting website content")

\* everything a call of extract_website_content can return or raise
extract_website_content == { extract(e) : e \in ExtractOutcomes }

(***************************************************************************)
(* generate_html_with_gemini                                               *)
(***************************************************************************)
\* What the model service does during one call:
\*   what    "nokey"  initialize_gemini raises (no GOOGLE_API_KEY)
\*           "quota"  generate_content raises a quota error
\*           "server" generate_content raises another error
\*           "text"   generate_content returns response.text
\*   fenced  the text is wrapped in ```html ... ```
\*   inner   the text without the fence: "empty" (no character), "blank"
\*           (white space only), "nodoctype", "doctype" (an HTML document
\*           that starts with <!DOCTYPE html>)
\*   body    the body of that document
GeminiOutcomes ==
    { g \in [what   : {"nokey", "quota", "server", "text"},
             fenced : BOOLEAN,
             inner  : {"empty", "blank", "nodoctype", "doctype"},
             body   : BodyKinds] :
        /\ g.what # "text" =>
              ~g.fenced /\ g.inner = "empty" /\ g.body = "text"
        /\ g.inner # "doctype" => g.body = "text" }

\* lines 369-379
GeminiError(msg) ==
    IF \/ StrIn(QuotaWord, StrLower(msg))
       \/ StrIn(RateWord, StrLower(msg))
    THEN HTTPException(429, "Rate limit exceeded")
    ELSE HTTPException(500, "Error generating HTML with Gemini")

generate(g) ==
    CASE g.what = "nokey"  -> GeminiError(NoApiKeyMsg)
      [] g.what = "quota"  -> GeminiError(QuotaExceededMsg)
      [] g.what = "server" -> GeminiError(ServerErrorMsg)
      [] OTHER ->
           \* line 347: response.text is the empty string
           IF ~g.fenced /\ g.inner = "empty"
           THEN GeminiError(EmptyResponseMsg)
           \* lines 356-360: nothing but white space once the fence is gone
           ELSE IF g.inner \in {"empty", "blank"}
           THEN GeminiError(EmptyCodeMsg)
           \* lines 363-364
           ELSE IF g.inner # "doctype"
           THEN GeminiError(NotValidMsg)
           ELSE Returned([origin |-> "gemini", body |-> g.body])

\* everything a call of generate_html_with_gemini can return or raise
generate_html_with_gemini == { generate(g) : g \in GeminiOutcomes }

(***************************************************************************)
(* html_store and preview_html                                             *)
(***************************************************************************)
\* a variant that always returns the same value
uuid4_constant == {1}

\* str(uuid.uuid4()): a value no earlier call has returned.  The ids are
\* numbered in the order in which they are handed out.
uuid4 == { i \in Ids \ DOMAIN html_store :
             \A j \in Ids \ DOMAIN html_store : i <= j }

\* html_store[html_id] = html_code
Put(store, id, h) ==
    [i \in DOMAIN store \cup {id} |-> IF i = id THEN h ELSE store[i]]

NoResp == [endpoint |-> "none", id |-> 0, status |-> 0, html |-> NoHtml,
           banner |-> FALSE]

\* lines 622-642
preview_html(id) ==
    IF id \notin DOMAIN html_store
    THEN [endpoint |-> "preview", id |-> id, status |-> 404,
          html |-> NoHtml, banner |-> FALSE]
    ELSE LET html_content == html_store[id]
             \* soup.body.get_text().strip() if soup.body else ""
             body_content == IF html_content.body = "text"
                             THEN "text" ELSE ""
         IN  IF body_content # ""
             THEN [endpoint |-> "preview", id |-> id, status |-> 200,
                   html |-> html_content, banner |-> FALSE]
             \* soup.body.insert(0, warning_div): soup.body is None when
             \* the document has no body, and the AttributeError is not
             \* caught
             ELSE IF html_content.body = "nobody"
             THEN [endpoint |-> "preview", id |-> id, status |-> 500,
                   html |-> NoHtml, banner |-> FALSE]
             ELSE [endpoint |-> "preview", id |-> id, status |-> 200,
                   html |-> html_content, banner |-> TRUE]

(***************************************************************************)
(* Spec: the handlers                                                      *)
(*                                                                         *)
(* The handlers are coroutines of one event loop: a handler runs alone     *)
(* from one await to the next.  clone_website awaits only                  *)
(* clone_with_playwright (line 548), so a request is one step when         *)
(* is_small is true and two steps otherwise, and other requests run        *)
(* between the two.  generate_html and preview_html have no await.         *)
(***************************************************************************)
othersFixed ==
    UNCHANGED << cssVars, assetVars, structVars, importVars, geminiVars,
                 bundleVars >>

\* one entry of log: a call of a collaborator-backed function and how it
\* ended ("pending" while it is awaited)
Call(f, outcome) == [call |-> f, outcome |-> outcome]

Outcome(res) == IF res.kind = "ok" THEN "returned" ELSE "raised"

\* lines 560-562: NamedTemporaryFile and f.write either succeed or raise
\* (OSError when the file cannot be created or the disk is full,
\* UnicodeEncodeError when the locale's encoding cannot hold the text)
TempFileOutcomes == {"written", "raised"}

\* lines 555-579: the HTML is stored under a new id, then written to a
\* temporary file, and returned with the id; an exception of the write is
\* caught at line 574 and answered with status 500
StoreAndReturn(r, html) ==
    \E html_id \in uuid4, f \in TempFileOutcomes :
       /\ html_store' = Put(html_store, html_id, html)
       /\ response' = [response EXCEPT
                          ![r] = IF f = "written"
                                 THEN WebsiteCloneResponse(html, html_id)
                                 ELSE HTTPException(500, "Unexpected error")]
       /\ html_code' = [html_code EXCEPT ![r] = html]

\* lines 571-573: an HTTPException raised by the Light Path leaves the
\* handler as it is; caught is the exception of line 549, if any
Surfaced_first_error(he, caught) ==
    IF caught.kind = "error" THEN caught ELSE he

Surfaced(he, caught) == he

Fail(r, he) ==
    /\ response' = [response EXCEPT ![r] = he]
    /\ UNCHANGED << html_code, html_store >>

\* a variant that gives up as soon as there is a caught exception
LightPath_no_fallback(r, calls, caught) ==
    IF caught.kind = "error"
    THEN /\ log' = [log EXCEPT ![r] = calls]
         /\ Fail(r, caught)
    ELSE \E content \in extract_website_content :
       /\ log' = [log EXCEPT ![r] =
                     calls \o << Call("extract", Outcome(content)) >>]
       /\ IF content.kind # "ok"
          THEN Fail(r, content)
          ELSE \E generated \in generate_html_with_gemini :
                  IF generated.kind # "ok"
                  THEN Fail(r, generated)
                  ELSE StoreAndReturn(r, generated.html)

\* lines 542-543 and 552-553, then the end of the handler
LightPath(r, calls, caught) ==
    \E content \in extract_website_content :
       IF content.kind # "ok"
       THEN /\ log' = [log EXCEPT ![r] =
                          calls \o << Call("extract", "raised") >>]
            /\ Fail(r, Surfaced(content, caught))
       ELSE \E generated \in generate_html_with_gemini :
               /\ log' = [log EXCEPT ![r] =
                             calls \o << Call("extract", "returned"),
                                         Call("generate", Outcome(generated)) >>]
               /\ IF generated.kind # "ok"
                  THEN Fail(r, Surfaced(generated, caught))
                  ELSE StoreAndReturn(r, generated.html)

\* a variant that reads the flag the wrong way round
CloneSmall_render(r) ==
    /\ pc[r] = "idle"
    /\ is_small' = [is_small EXCEPT ![r] = TRUE]
    /\ log' = [log EXCEPT ![r] = << Call("render", "pending") >>]
    /\ pc' = [pc EXCEPT ![r] = "render"]
    /\ last_resp' = NoResp
    /\ UNCHANGED << absorbed, html_code, response, html_store >>
    /\ othersFixed

\* POST /clone-website with is_small = true: lines 539-543 and 555-579
CloneSmall(r) ==
    /\ pc[r] = "idle"
    /\ is_small' = [is_small EXCEPT ![r] = TRUE]
    /\ LightPath(r, << >>, NoError)
    /\ pc' = [pc EXCEPT ![r] = "done"]
    /\ last_resp' = NoResp
    /\ UNCHANGED absorbed
    /\ othersFixed

\* POST /clone-website with is_small = false, up to the await of line 548
CloneLarge(r) ==
    /\ pc[r] = "idle"
    /\ is_small' = [is_small EXCEPT ![r] = FALSE]
    /\ log' = [log EXCEPT ![r] = << Call("render", "pending") >>]
    /\ pc' = [pc EXCEPT ![r] = "render"]
    /\ last_resp' = NoResp
    /\ UNCHANGED << absorbed, html_code, response, html_store >>
    /\ othersFixed

\* clone_with_playwright returns or raises, and the handler runs to its end:
\* lines 548-579
RenderDone(r) ==
    /\ pc[r] = "render"
    /\ \E res \in clone_with_playwright :
          IF res.kind = "ok"
          THEN /\ StoreAndReturn(r, res.html)
               /\ log' = [log EXCEPT ![r] = << Call("render", "returned") >>]
               /\ UNCHANGED absorbed
          ELSE /\ absorbed' = [absorbed EXCEPT ![r] = TRUE]
               /\ LightPath(r, << Call("render", "raised") >>, res)
    /\ pc' = [pc EXCEPT ![r] = "done"]
    /\ last_resp' = NoResp
    /\ UNCHANGED is_small
    /\ othersFixed

\* GET /preview/{html_id}: the caller holds an id that some request stored,
\* or one that no call of uuid4 ever returns
Preview ==
    /\ \E html_id \in DOMAIN html_store \cup {UnknownId} :
          last_resp' = preview_html(html_id)
    /\ UNCHANGED << pc, is_small, log, absorbed, html_code, response,
                    html_store >>
    /\ othersFixed

\* lines 584-585: everything the two calls of generate_html can give
generate_html ==
    { IF content.kind = "ok" THEN html ELSE content :
         content \in extract_website_content,
         html \in generate_html_with_gemini }

\* POST /generate-html (lines 581-616)
GenerateHtml ==
    /\ \E res \in generate_html :
          last_resp' = [endpoint |-> "generate-html", id |-> 0,
                        status |-> res.status, html |-> res.html,
                        banner |-> FALSE]
    /\ UNCHANGED << pc, is_small, log, absorbed, html_code, response,
                    html_store >>
    /\ othersFixed

EmptyStore == [i \in {} |-> NoHtml]

handlerInit ==
    /\ pc = [r \in Runs |-> "idle"]
    /\ is_small = [r \in Runs |-> TRUE]
    /\ log = [r \in Runs |-> << >>]
    /\ absorbed = [r \in Runs |-> FALSE]
    /\ html_code = [r \in Runs |-> NoHtml]
    /\ response = [r \in Runs |-> NoResponse]
    /\ html_store = EmptyStore
    /\ last_resp = NoResp

cssIdle == css_links = << >> /\ css_pc = "off" /\ futures = << >>
           /\ consumed = {} /\ css_files = << >>
assetIdle == page_url = "" /\ elements = << >> /\ asset_pc = "off"
             /\ assets = << >>
structIdle == soup = << >> /\ struct_pc = "off" /\ structure = << >>
\* extract_css_from_style before it is called
NotCalled == [pc |-> "off", imports |-> << >>, requested |-> << >>,
              css_content |-> << >>, text |-> << >>]
importIdle == style_in = << >> /\ web = << >> /\ style_out = NotCalled
\* generate_html_with_gemini before it is called
NoGeneration == [pc |-> "off", html_code |-> << >>, error |-> << >>,
                 result |-> NoError, text |-> << >>]
geminiIdle == gemini_in = << >> /\ gemini_run = NoGeneration
\* a request before it has read the page
NoContent == [type |-> "none", s |-> "", items |-> << >>]
NoBundle == [pc |-> "off", content |-> NoContent, sent |-> NoContent]
bundleIdle == head = << >> /\ bundle = NoBundle

Init == handlerInit /\ cssIdle /\ assetIdle /\ structIdle /\ importIdle
        /\ geminiIdle /\ bundleIdle

Next ==
    \/ \E r \in Runs : CloneSmall(r)
    \/ \E r \in Runs : CloneLarge(r)
    \/ \E r \in Runs : RenderDone(r)
    \/ Preview
    \/ GenerateHtml

Spec == Init /\ [][Next]_vars

(***************************************************************************)
(* Properties of the handlers (checked under Spec)                         *)
(***************************************************************************)
Calls(r, f) == Cardinality({i \in 1 .. Len(log[r]) : log[r][i].call = f})

Done(r) == pc[r] = "done"
Succeeded(r) == Done(r) /\ response[r].kind = "ok"
Failed(r) == Done(r) /\ response[r].kind = "error"

\* the request stored its HTML (line 557) and the write of the temporary
\* file raised: it is answered with the 500 of line 576
TempFileFailed(r) ==
    /\ Done(r)
    /\ html_code[r] # NoHtml
    /\ response[r] = HTTPException(500, "Unexpected error")

\* the HTTPExceptions extract_website_content and generate_html_with_gemini
\* raise
LightErrors == { res \in extract_website_content \cup generate_html_with_gemini :
                   res.kind = "error" }
\* the HTTPExceptions clone_with_playwright raises
RenderErrors == { res \in clone_with_playwright : res.kind = "error" }

\* the render failed inside clone_with_playwright: either it raised, or the
\* handler of line 505 returned the page content it could still read
RenderFailed(r) ==
    \/ absorbed[r]
    \/ html_code[r].origin = "partial"

LightSucceeded(r) ==
    /\ Call("extract", "returned") \in { log[r][i] : i \in 1 .. Len(log[r]) }
    /\ Call("generate", "returned") \in { log[r][i] : i \in 1 .. Len(log[r]) }

\* C1 as stated: for is_small = false, after any failure of the render the
\* request runs the Light Path, and when extraction and generation succeed
\* it ends in Success with the generated HTML; it never answers with HTML
\* of the failed render.
C1_Original ==
    \A r \in Runs :
       (Done(r) /\ ~is_small[r] /\ RenderFailed(r)) =>
          /\ Calls(r, "extract") = 1
          /\ response[r].html.origin \notin {"render", "partial"}
          /\ LightSucceeded(r) =>
                Succeeded(r) /\ response[r].html.origin = "gemini"

\* C1 amended: for is_small = false, whenever clone_with_playwright raises,
\* the request runs the Light Path exactly once, and when extraction and
\* generation succeed it ends in Success with the generated HTML; whenever
\* clone_with_playwright returns (the rendered page, or the unprocessed
\* page content it could still read after a failed navigation) the request
\* ends in Success with that HTML and the Light Path is not run.  In both
\* cases Success needs the temporary file to be written: when that write
\* raises, the request ends in Failure with status 500.
C1_FallbackWhenRenderRaises ==
    \A r \in Runs :
       (Done(r) /\ ~is_small[r]) =>
          /\ absorbed[r] =>
                /\ log[r][1] = Call("render", "raised")
                /\ Calls(r, "extract") = 1
                /\ response[r].html.origin \notin {"render", "partial"}
                /\ LightSucceeded(r) =>
                      \/ Succeeded(r) /\ response[r].html.origin = "gemini"
                      \/ TempFileFailed(r) /\ html_code[r].origin = "gemini"
          /\ ~absorbed[r] =>
                /\ log[r] = << Call("render", "returned") >>
                /\ \/ /\ Succeeded(r)
                      /\ response[r].html.origin \in {"render", "partial"}
                   \/ TempFileFailed(r)

C1_Witness ==
    \E r \in Runs :
       /\ Done(r) /\ ~is_small[r] /\ absorbed[r]
       /\ LightSucceeded(r) /\ Succeeded(r)
       /\ response[r].html.origin = "gemini"

\* C2: the fallback is one-shot.  In every run each of render, extraction
\* and generation is called at most once and the render is never called
\* after the Light Path has started; when is_small = false and both the
\* render and the Light Path fail, the request ends in Failure with the
\* Light Path's exception, not with the render's.
C2_OneShotFallback ==
    \A r \in Runs :
       /\ Calls(r, "render") <= 1
       /\ Calls(r, "extract") <= 1
       /\ Calls(r, "generate") <= 1
       /\ \A i, j \in 1 .. Len(log[r]) :
             (i < j /\ log[r][i].call \in {"extract", "generate"}) =>
                log[r][j].call # "render"
       /\ (Done(r) /\ ~is_small[r] /\ absorbed[r]
             /\ ~LightSucceeded(r)) =>
             /\ Failed(r)
             /\ response[r] \in LightErrors
             /\ response[r] \notin RenderErrors

C2_Witness ==
    \E r \in Runs :
       /\ Done(r) /\ ~is_small[r] /\ absorbed[r]
       /\ Failed(r) /\ Calls(r, "generate") = 1

\* C3: the flag selects the entry path.  A request with is_small = true
\* starts with the Light Path and never calls the render; a request with
\* is_small = false starts with the render; and when a request that
\* entered the Light Path directly has extraction or generation raise, it
\* ends in Failure with that exception, each call made once and no render.
C3_EntrySelection ==
    \A r \in Runs :
       pc[r] # "idle" =>
          /\ is_small[r] =>
                /\ log[r][1].call = "extract"
                /\ Calls(r, "render") = 0
          /\ ~is_small[r] => log[r][1].call = "render"
          /\ (is_small[r] /\ ~LightSucceeded(r)) =>
                /\ Failed(r)
                /\ response[r] \in LightErrors
                /\ Calls(r, "extract") = 1
                /\ Calls(r, "generate") <= 1
                /\ log[r][Len(log[r])].outcome = "raised"

C3_Witness ==
    /\ \E r \in Runs :
          /\ is_small[r] /\ Failed(r)
          /\ log[r] = << Call("extract", "returned"),
                         Call("generate", "raised") >>
    /\ \E r \in Runs : ~is_small[r] /\ pc[r] = "render"

\* Get of the Artifact Store: lines 625-628
Get(id) == IF id \in DOMAIN html_store THEN html_store[id] ELSE NoHtml

Returned_ids == { response[r].preview_id : r \in { q \in Runs : Succeeded(q) } }

\* C4 as stated: every request that ends in Success has stored its HTML
\* under the id it returns: looking that id up gives the HTML returned with
\* it, whatever requests and previews ran in between; an id that no request
\* returned is not in the store, and its preview answers 404.
C4_Original ==
    /\ \A r \in Runs :
          Succeeded(r) =>
             /\ response[r].preview_id \in DOMAIN html_store
             /\ Get(response[r].preview_id) = response[r].html
             /\ response[r].html \in Html
    /\ \A id \in (Ids \cup {UnknownId}) \ Returned_ids :
          /\ Get(id) = NoHtml
          /\ preview_html(id).status = 404

\* C5 as stated: a preview of a known id never ends in an error; it answers
\* with the stored HTML, with the warning banner inserted exactly when the
\* stored HTML has no visible body text (an empty body, or no body element).
C5_Original ==
    (last_resp.endpoint = "preview" /\ last_resp.status # 404) =>
       /\ last_resp.id \in DOMAIN html_store
       /\ last_resp.status = 200
       /\ last_resp.html = html_store[last_resp.id]
       /\ last_resp.banner = (html_store[last_resp.id].body # "text")

\* C6: the store is safe under interleaved requests.  Two requests that
\* succeeded hold different ids, every stored HTML is still the one its
\* request put there, the store has exactly one entry for each request
\* that stored one (none is overwritten or lost), and a lookup at any
\* moment finds either nothing or a complete HTML document.
C6_StoreSafe ==
    /\ \A r, q \in Runs :
          (r # q /\ Succeeded(r) /\ Succeeded(q)) =>
             response[r].preview_id # response[q].preview_id
    /\ \A r \in Runs :
          Succeeded(r) => Get(response[r].preview_id) = html_code[r]
    /\ Cardinality(DOMAIN html_store) =
          Cardinality({ r \in Runs : html_code[r] # NoHtml })
    /\ \A id \in Ids \cup {UnknownId} : Get(id) \in Html \cup {NoHtml}
    /\ (last_resp.endpoint = "preview" /\ last_resp.status = 200) =>
          last_resp.html \in Html

C6_Witness ==
    \E r, q \in Runs :
       /\ r # q /\ Succeeded(r) /\ Succeeded(q)
       /\ html_code[r] # html_code[q]
       /\ last_resp.endpoint = "preview" /\ last_resp.status = 200

\* the keys the step adds to html_store
NewKeys == DOMAIN html_store' \ DOMAIN html_store

\* the step leaves every entry of html_store as it is
EntriesKept ==
    \A id \in DOMAIN html_store :
       id \in DOMAIN html_store' /\ html_store'[id] = html_store[id]

\* the step ends request r
Ends(r) == ~Done(r) /\ Done(r)'

\* C13 as stated: html_store changes only in a step that ends a clone
\* request in Success, and such a step adds exactly one new key; a step
\* that ends a clone request in Failure, a /generate-html request and a
\* preview leave the store as it is; no entry is ever changed or removed.
C13_Original ==
    [][ /\ EntriesKept
        /\ \A r \in Runs :
              /\ (Ends(r) /\ Succeeded(r)') =>
                    /\ Cardinality(NewKeys) = 1
                    /\ NewKeys = {response'[r].preview_id}
              /\ (Ends(r) /\ Failed(r)') => html_store' = html_store
        /\ html_store' # html_store =>
              \E r \in Runs : Ends(r) /\ Succeeded(r)'
      ]_vars

\* the part of C13 that the code keeps: no entry is ever changed or
\* removed, and html_store gains one key exactly in the steps in which a
\* clone request reaches line 557, whatever the end of that request
C13_GrowsByStoredClones ==
    [][ /\ EntriesKept
        /\ \A r \in Runs :
              (Ends(r) /\ html_code'[r] # NoHtml) => Cardinality(NewKeys) = 1
        /\ html_store' # html_store =>
              \E r \in Runs : Ends(r) /\ html_code'[r] # NoHtml
      ]_vars

(***************************************************************************)
(* SpecCss: the external stylesheets, lines 187-204                        *)
(***************************************************************************)
MaxLinks == 2

\* link["href"] of a <link rel="stylesheet">; "" when the attribute is
\* missing or empty (link.get("href") is falsy)
Hrefs == {"", "a.css", "b.css"}

\* ThreadPoolExecutor(max_workers=5)
max_workers == 5

\* what requests.get does for one stylesheet: status 0 stands for an
\* exception (connection error, timeout, invalid URL)
FetchOutcomes ==
    { f \in [status : {0, 200, 203, 404}, text : {"", "css"}] :
         /\ f.status = 0 => f.text = ""
         /\ f.status = 203 => f.text = "css" }
NoFetch == [status |-> -1, text |-> ""]

\* a variant without the status test
extract_css_from_file_any_status(f) == IF f.status = 0 THEN "" ELSE f.text

\* lines 97-109: the text of the response when the status is 200, "" for
\* any other status and for any exception
extract_css_from_file(f) ==
    IF f.status = 0 THEN ""
    ELSE IF f.status = 200 THEN f.text
    ELSE ""

NoFuture == [state |-> "none", fetched |-> NoFetch, result |-> ""]

Running == { i \in 1 .. Len(futures) : futures[i].state = "running" }
Pending == { i \in 1 .. Len(futures) : futures[i].state = "pending" }

cssOthersFixed ==
    UNCHANGED << handlerVars, assetVars, structVars, importVars,
                 geminiVars, bundleVars >>

\* lines 190-193: one future per link that has an href
CssSubmit ==
    /\ css_pc = "submit"
    /\ futures' = [i \in 1 .. Len(css_links) |->
                     IF css_links[i] # ""
                     THEN [NoFuture EXCEPT !.state = "pending"]
                     ELSE NoFuture]
    /\ css_pc' = "pool"
    /\ UNCHANGED << css_links, consumed, css_files >>
    /\ cssOthersFixed

\* a variant of the pool that starts a thread for every queued call
WorkerStart_unbounded(i) ==
    /\ css_pc = "pool"
    /\ i \in Pending
    /\ \A j \in Pending : i <= j
    /\ futures' = [futures EXCEPT ![i].state = "running"]
    /\ UNCHANGED << css_links, css_pc, consumed, css_files >>
    /\ cssOthersFixed

\* a worker thread takes the oldest queued call, when fewer than
\* max_workers calls are running
WorkerStart(i) ==
    /\ css_pc = "pool"
    /\ i \in Pending
    /\ \A j \in Pending : i <= j
    /\ Cardinality(Running) < max_workers
    /\ futures' = [futures EXCEPT ![i].state = "running"]
    /\ UNCHANGED << css_links, css_pc, consumed, css_files >>
    /\ cssOthersFixed

\* extract_css_from_file returns in its worker thread, requests.get having
\* done f
WorkerReturns(i, f) ==
    /\ css_pc = "pool"
    /\ i \in Running
    /\ futures' = [futures EXCEPT
                     ![i] = [state |-> "done", fetched |-> f,
                             result |-> extract_css_from_file(f)]]
    /\ UNCHANGED << css_links, css_pc, consumed, css_files >>
    /\ cssOthersFixed

WorkerFinish(i) == \E f \in FetchOutcomes : WorkerReturns(i, f)

\* lines 194-202: as_completed yields a finished future; its url and
\* content are appended when the content is not empty
AsCompleted(i) ==
    /\ css_pc = "pool"
    /\ i \in 1 .. Len(futures)
    /\ futures[i].state = "done"
    /\ i \notin consumed
    /\ consumed' = consumed \cup {i}
    /\ LET css_url == css_links[i]
           css_content == futures[i].result
       IN  css_files' = IF css_content # ""
                        THEN Append(css_files, [url |-> css_url,
                                                content |-> css_content])
                        ELSE css_files
    /\ UNCHANGED << css_links, css_pc, futures >>
    /\ cssOthersFixed

\* the end of the as_completed loop and of the with block (line 206)
CssJoin ==
    /\ css_pc = "pool"
    /\ \A i \in 1 .. Len(futures) :
          futures[i].state # "none" => i \in consumed
    /\ css_pc' = "done"
    /\ UNCHANGED << css_links, futures, consumed, css_files >>
    /\ cssOthersFixed

handlerIdle == handlerInit

LinkLists == UNION { [1 .. n -> Hrefs] : n \in 0 .. MaxLinks }

InitCss ==
    /\ css_links \in LinkLists
    /\ css_pc = "submit"
    /\ futures = << >>
    /\ consumed = {}
    /\ css_files = << >>
    /\ handlerIdle /\ assetIdle /\ structIdle /\ importIdle /\ geminiIdle
    /\ bundleIdle

NextCss ==
    \/ CssSubmit
    \/ \E i \in 1 .. MaxLinks : WorkerStart(i)
    \/ \E i \in 1 .. MaxLinks : WorkerFinish(i)
    \/ \E i \in 1 .. MaxLinks : AsCompleted(i)
    \/ CssJoin

SpecCss == InitCss /\ [][NextCss]_vars

\* the links that have an href (K of them)
Linked == { i \in 1 .. Len(css_links) : css_links[i] # "" }

\* the entry the claim expects for link i
EntryOf(i) == [url |-> css_links[i], content |-> futures[i].fetched.text]

Entries == [url : Hrefs, content : {"", "css"}]

\* css_files holds exactly one entry for each link of the set ok
ExactlyEntriesOf(ok) ==
    /\ Len(css_files) = Cardinality(ok)
    /\ \A e \in Entries :
          Count(css_files, e) = Cardinality({ i \in ok : EntryOf(i) = e })

\* C7 as stated: when the batch is over, css_files holds exactly one entry
\* for each link whose fetch ended with a 2xx status, whatever its body,
\* and none for a link whose fetch failed (K - M entries).
C7_Original ==
    css_pc = "done" =>
       ExactlyEntriesOf({ i \in Linked :
                            futures[i].fetched.status \in 200 .. 299 })

\* C7 amended: extraction never aborts because of a stylesheet, and when
\* the batch is over css_files holds exactly one entry for each link whose
\* fetch ended with status 200 and a non-empty body, pairing the link's
\* href with the text fetched for that link; a link whose fetch raised,
\* ended with any other status (2xx other than 200 included) or returned an
\* empty body has no entry.
C7_EntriesFor200WithBody ==
    css_pc = "done" =>
       /\ \A i \in Linked : futures[i].state = "done"
       /\ ExactlyEntriesOf({ i \in Linked :
                               /\ futures[i].fetched.status = 200
                               /\ futures[i].fetched.text # "" })

C7_Witness ==
    /\ css_pc = "done"
    /\ Cardinality(Linked) = 2
    /\ \E i, j \in Linked :
          /\ futures[i].fetched.status = 404
          /\ futures[j].fetched = [status |-> 200, text |-> "css"]
    /\ Len(css_files) = 1

(***************************************************************************)
(* SpecPool: the same batch for pages with more links than the pool has    *)
(* threads; a fetch either fails or gives a stylesheet                     *)
(***************************************************************************)
MaxBatch == 6

PoolHrefs == {"", "a.css"}
PoolOutcomes == { f \in FetchOutcomes :
                    f.status = 0 \/ (f.status = 200 /\ f.text = "css") }

InitPool ==
    /\ css_links \in UNION { [1 .. n -> PoolHrefs] : n \in 0 .. MaxBatch }
    /\ css_pc = "submit"
    /\ futures = << >>
    /\ consumed = {}
    /\ css_files = << >>
    /\ handlerIdle /\ assetIdle /\ structIdle /\ importIdle /\ geminiIdle
    /\ bundleIdle

NextPool ==
    \/ CssSubmit
    \/ \E i \in 1 .. MaxBatch : WorkerStart(i)
    \/ \E i \in 1 .. MaxBatch : \E f \in PoolOutcomes : WorkerReturns(i, f)
    \/ \E i \in 1 .. MaxBatch : AsCompleted(i)
    \/ CssJoin

SpecPool == InitPool /\ [][NextPool]_vars

\* the fetches in flight: submitted calls that a worker thread is running
InFlight == Running
\* the futures the batch submitted
Submitted == { i \in 1 .. Len(futures) : futures[i].state # "none" }

\* C12: at every moment at most 5 stylesheet fetches are in flight, however
\* many links the page has; and once the batch is joined (extraction goes
\* on to the assets) every submitted fetch has finished or failed and has
\* been seen by the as_completed loop, so that css_files is final: it has
\* one entry for each fetch that gave a stylesheet and no fetch is left
\* that could add one.
C12_BoundedJoinAll ==
    /\ Cardinality(InFlight) <= 5
    /\ css_pc = "done" =>
          /\ Submitted = Linked
          /\ \A i \in Submitted : futures[i].state = "done" /\ i \in consumed
          /\ Len(css_files)
               = Cardinality({ i \in Submitted : futures[i].result # "" })

\* six links with an href: five fetches in flight and the sixth waits
C12_Witness ==
    /\ Cardinality(Linked) = 6
    /\ Cardinality(InFlight) = 5
    /\ Pending # {}

(***************************************************************************)
(* SpecAssets: images, icons and scripts, lines 206-236                    *)
(***************************************************************************)
MaxElements == 2

\* A URL or URL reference, as urllib.parse.urlparse splits it:
\*   scheme  "" when the reference names none
\*   netloc  "" when there is no //host part
\*   rooted  the path starts with "/"
\*   path    the segments of the path
Url(scheme, netloc, rooted, path) ==
    [scheme |-> scheme, netloc |-> netloc, rooted |-> rooted, path |-> path]

\* the forms of reference a page can hold
AbsPathRef   == Url("", "", TRUE, << "logo.png" >>)          \* /logo.png
DotRef       == Url("", "", FALSE, << ".", "a.png" >>)      \* ./a.png
DotDotRef    == Url("", "", FALSE, << "..", "a.png" >>)     \* ../a.png
PlainRef     == Url("", "", FALSE, << "img", "a.png" >>)    \* img/a.png
ProtoRelRef  == Url("", "cdn.com", TRUE, << "x.png" >>)     \* //cdn.com/x.png
EmptyRef     == Url("", "", FALSE, << >>)                   \* the empty string
DataRef      == Url("data", "", FALSE, << "image", "png;base64,AA" >>)
JsRef        == Url("javascript", "", FALSE, << "void(0)" >>)
AbsoluteRef  == Url("https", "cdn.com", TRUE, << "x.png" >>)
HttpRelRef   == Url("http", "", FALSE, << "foo.png" >>)     \* http:foo.png

Refs == { AbsPathRef, DotRef, DotDotRef, PlainRef, ProtoRelRef, EmptyRef,
          DataRef, JsRef, AbsoluteRef, HttpRelRef }

\* request.url: validated as HttpUrl, so scheme and host are present
PageUrls == { Url("https", "ex.com", TRUE, << "p" >>),
              Url("http", "ex.com", TRUE, << "dir", "p.html" >>) }

\* lines 65-68
get_base_url(url) == Url(url.scheme, url.netloc, FALSE, << >>)

\* urllib.parse.uses_relative, as far as the schemes of the model go
uses_relative == {"http", "https", "ftp", "file", ""}

\* the loop of urljoin that removes "." and ".." segments
RECURSIVE ResolveDots(_, _)
ResolveDots(segments, resolved_path) ==
    IF segments = << >> THEN resolved_path
    ELSE LET seg == Head(segments)
         IN  IF seg = ".."
             THEN ResolveDots(Tail(segments),
                     IF resolved_path = << >> THEN << >>
                     ELSE SubSeq(resolved_path, 1, Len(resolved_path) - 1))
             ELSE IF seg = "."
             THEN ResolveDots(Tail(segments), resolved_path)
             ELSE ResolveDots(Tail(segments), Append(resolved_path, seg))

\* urllib.parse.urljoin(base, url)
urljoin(base, url) ==
    IF url = EmptyRef THEN base
    ELSE LET scheme == IF url.scheme = "" THEN base.scheme ELSE url.scheme
         IN  IF scheme # base.scheme \/ scheme \notin uses_relative
             THEN url
             ELSE IF url.netloc # ""
             THEN Url(scheme, url.netloc, url.rooted, url.path)
             ELSE IF url.path = << >>
             THEN Url(scheme, base.netloc, base.rooted, base.path)
             ELSE LET base_parts ==
                         IF base.path = << >> THEN << >>
                         ELSE SubSeq(base.path, 1, Len(base.path) - 1)
                      segments == IF url.rooted THEN url.path
                                  ELSE base_parts \o url.path
                      last == segments[Len(segments)]
                      resolved == ResolveDots(segments, << >>)
                  IN  Url(scheme, base.netloc, TRUE,
                          IF last \in {".", ".."}
                          THEN Append(resolved, "") ELSE resolved)

\* src.startswith(('http://', 'https://'))
StartsWithHttp(ref) == ref.scheme \in {"http", "https"} /\ ref.netloc # ""

\* a variant that leaves every reference as it is
Absolutize_identity(base_url, ref) == ref

\* lines 209-210, 223-224, 234-235
Absolutize(base_url, ref) ==
    IF ~StartsWithHttp(ref) THEN urljoin(base_url, ref) ELSE ref

\* the elements of the page that carry a URL: <img src>, <link rel=icon
\* href>, <script src>, in document order
Tags == {"img", "icon", "script"}
Element == [tag : Tags, ref : Refs]

RECURSIVE Select(_, _)
\* find_all(tag, ...): the references of the elements with that tag
Select(elems, tag) ==
    IF elems = << >> THEN << >>
    ELSE IF Head(elems).tag = tag
         THEN << Head(elems).ref >> \o Select(Tail(elems), tag)
         ELSE Select(Tail(elems), tag)

NoAssets == [images |-> << >>, background_images |-> << >>,
             scripts |-> << >>, fonts |-> << >>, icons |-> << >>]

assetOthersFixed ==
    UNCHANGED << handlerVars, cssVars, structVars, importVars, geminiVars,
                 bundleVars >>

\* lines 207-217: every <img> that has a src attribute, empty or not
ExtractImages ==
    /\ asset_pc = "images"
    /\ LET base_url == get_base_url(page_url)
           srcs == Select(elements, "img")
       IN  assets' = [assets EXCEPT !.images =
                         [i \in 1 .. Len(srcs) |->
                            [src |-> Absolutize(base_url, srcs[i])]]]
    /\ asset_pc' = "icons"
    /\ UNCHANGED << page_url, elements >>
    /\ assetOthersFixed

\* lines 220-229: every icon link whose href is not empty
ExtractIcons ==
    /\ asset_pc = "icons"
    /\ LET base_url == get_base_url(page_url)
           hrefs == SelectSeq(Select(elements, "icon"),
                              LAMBDA href : href # EmptyRef)
       IN  assets' = [assets EXCEPT !.icons =
                         [i \in 1 .. Len(hrefs) |->
                            [href |-> Absolutize(base_url, hrefs[i])]]]
    /\ asset_pc' = "scripts"
    /\ UNCHANGED << page_url, elements >>
    /\ assetOthersFixed

\* lines 232-236: every <script> that has a src attribute
ExtractScripts ==
    /\ asset_pc = "scripts"
    /\ LET base_url == get_base_url(page_url)
           srcs == Select(elements, "script")
       IN  assets' = [assets EXCEPT !.scripts =
                         [i \in 1 .. Len(srcs) |->
                            Absolutize(base_url, srcs[i])]]
    /\ asset_pc' = "done"
    /\ UNCHANGED << page_url, elements >>
    /\ assetOthersFixed

ElementLists == UNION { [1 .. n -> Element] : n \in 0 .. MaxElements }

InitAssets ==
    /\ page_url \in PageUrls
    /\ elements \in ElementLists
    /\ asset_pc = "images"
    /\ assets = NoAssets
    /\ handlerIdle /\ cssIdle /\ structIdle /\ importIdle /\ geminiIdle
    /\ bundleIdle

NextAssets == ExtractImages \/ ExtractIcons \/ ExtractScripts

SpecAssets == InitAssets /\ [][NextAssets]_vars

\* every URL-valued field of content["assets"]
AssetUrls ==
    { assets.images[i].src : i \in 1 .. Len(assets.images) }
    \cup { assets.icons[i].href : i \in 1 .. Len(assets.icons) }
    \cup { assets.scripts[i] : i \in 1 .. Len(assets.scripts) }
    \cup { assets.background_images[i] :
              i \in 1 .. Len(assets.background_images) }

IsAbsolute(u) == u.scheme # "" /\ u.netloc # ""
IsDataUri(u) == u.scheme = "data"

\* C8 as stated: in the returned bundle every URL-valued field of assets
\* is absolute (scheme and host) or a data: URI, whatever the form of the
\* reference in the page.
C8_Original ==
    asset_pc = "done" => \A u \in AssetUrls : IsAbsolute(u) \/ IsDataUri(u)

\* the references of the page that urljoin returns unchanged: they name a
\* scheme that is not the page's or is not a hierarchical one
OwnScheme(ref) ==
    /\ ref.scheme # ""
    /\ ref.scheme # page_url.scheme \/ ref.scheme \notin uses_relative

\* C8 amended: in the returned bundle every URL-valued field of assets has
\* a scheme.  A reference without a scheme (/abs/path, ./rel, ../rel,
\* rel/path, //host/path, empty) becomes absolute, with the scheme of the
\* page and a host; a reference that names a scheme other than the page's
\* (data:, javascript:, http:rel on an https page) is kept unchanged, host
\* or not.  No scheme-less relative URL appears.
C8_SchemeAlwaysPresent ==
    asset_pc = "done" =>
       /\ Len(assets.images) = Len(Select(elements, "img"))
       /\ Len(assets.scripts) = Len(Select(elements, "script"))
       /\ \A u \in AssetUrls :
             /\ u.scheme # ""
             /\ \/ IsAbsolute(u)
                \/ \E i \in 1 .. Len(elements) :
                      u = elements[i].ref /\ OwnScheme(u)
       /\ \A i \in 1 .. Len(assets.images) :
             LET ref == Select(elements, "img")[i]
             IN  /\ ref.scheme = "" => IsAbsolute(assets.images[i].src)
                 /\ ref = AbsPathRef =>
                       assets.images[i].src =
                          Url(page_url.scheme, page_url.netloc, TRUE,
                              << "logo.png" >>)

C8_Witness ==
    /\ asset_pc = "done"
    /\ page_url.scheme = "https"
    /\ Len(assets.images) = 1
    /\ assets.images[1].src = Url("https", "ex.com", TRUE, << "logo.png" >>)
    /\ Len(assets.scripts) = 1
    /\ assets.scripts[1] = Url("https", "cdn.com", TRUE, << "x.png" >>)

(***************************************************************************)
(* SpecStructure: header, nav, main, footer, lines 168-178                 *)
(***************************************************************************)
\* the tags of the loop of line 169, in its order
StructureTags == << "header", "nav", "main", "footer" >>

\* soup.find(tag) for each tag of interest:
\*   "absent"  find returns None
\*   "empty"   the first such element has no visible text
\*             (get_text().strip() is "")
\*   "text"    the first such element has visible text
ElementKinds == {"absent", "empty", "text"}
Soups == [{"header", "nav", "main", "footer", "body"} -> ElementKinds]

\* str(element): the markup of the element
Markup(tag, kind) == [tag |-> tag, text |-> kind]

\* a variant that takes an element without text for a missing one
Truthy_has_text(element) == element = "text"

\* `if element:` -- bs4 defines Tag.__bool__ to return True, so the test
\* asks only whether find returned an element
Truthy(element) == element # "absent"

structOthersFixed ==
    UNCHANGED << handlerVars, cssVars, assetVars, importVars, geminiVars,
                 bundleVars >>

SetEntry(d, k, v) == [x \in DOMAIN d \cup {k} |-> IF x = k THEN v ELSE d[x]]

\* lines 169-172: one iteration of the loop
StructureTag ==
    /\ \E i \in 1 .. Len(StructureTags) : struct_pc = StructureTags[i]
    /\ LET tag == struct_pc
           element == soup[tag]
       IN  structure' = IF Truthy(element)
                        THEN SetEntry(structure, tag, Markup(tag, element))
                        ELSE structure
    /\ struct_pc' =
          LET i == CHOOSE k \in 1 .. Len(StructureTags) :
                      StructureTags[k] = struct_pc
          IN  IF i = Len(StructureTags) THEN "body"
              ELSE StructureTags[i + 1]
    /\ UNCHANGED soup
    /\ structOthersFixed

\* lines 175-178: without a "main" entry (or with an empty string for it,
\* which str(element) never is) the body is used
MainFallback ==
    /\ struct_pc = "body"
    /\ LET main == IF "main" \in DOMAIN structure THEN "markup" ELSE ""
           body == soup["body"]
       IN  structure' = IF main = "" /\ Truthy(body)
                        THEN SetEntry(structure, "main",
                                      Markup("body", body))
                        ELSE structure
    /\ struct_pc' = "done"
    /\ UNCHANGED soup
    /\ structOthersFixed

NoStructure == [x \in {} |-> Markup("", "absent")]

InitStructure ==
    /\ soup \in Soups
    /\ struct_pc = StructureTags[1]
    /\ structure = NoStructure
    /\ handlerIdle /\ cssIdle /\ assetIdle /\ importIdle /\ geminiIdle
    /\ bundleIdle

NextStructure == StructureTag \/ MainFallback

SpecStructure == InitStructure /\ [][NextStructure]_vars

\* C9 as stated: structure has an entry only for an element whose visible
\* text is not empty (an empty <nav></nav> gives no entry), and an empty
\* <main> falls back to the document body.
C9_Original ==
    struct_pc = "done" =>
       /\ \A tag \in DOMAIN structure : structure[tag].text = "text"
       /\ (soup["main"] = "empty" /\ soup["body"] = "text") =>
             structure["main"] = Markup("body", "text")

\* C9 amended: structure has an entry for a tag in {header, nav, main,
\* footer} exactly when the document has such an element, whatever its
\* text: an element with only markup or white space (an empty <nav></nav>)
\* produces an entry with its markup.  main falls back to the document
\* body only when the document has no <main> element; an empty <main> is
\* kept.
C9_EntryForEveryElementFound ==
    struct_pc = "done" =>
       /\ \A tag \in {"header", "nav", "footer"} :
             /\ tag \in DOMAIN structure <=> soup[tag] # "absent"
             /\ tag \in DOMAIN structure =>
                   structure[tag] = Markup(tag, soup[tag])
       /\ soup["main"] # "absent" =>
             /\ "main" \in DOMAIN structure
             /\ structure["main"] = Markup("main", soup["main"])
       /\ (soup["main"] = "absent" /\ soup["body"] # "absent") =>
             /\ "main" \in DOMAIN structure
             /\ structure["main"] = Markup("body", soup["body"])
       /\ (soup["main"] = "absent" /\ soup["body"] = "absent") =>
             "main" \notin DOMAIN structure

C9_Witness ==
    /\ struct_pc = "done"
    /\ soup["nav"] = "empty" /\ "nav" \in DOMAIN structure
    /\ soup["main"] = "empty" /\ soup["body"] = "text"
    /\ structure["main"] = Markup("main", "empty")

(***************************************************************************)
(* SpecImport: extract_css_from_style, lines 70-95                         *)
(***************************************************************************)
MaxTokens == 2

\* A stylesheet text is a sequence of tokens:
\*   an @import url(...) with its reference, written with or without
\*   quotes;
\*   a rule, which may contain a ")" (as in rgb(0,0,0)) or a quote
\*   character (as in content:"x"), or neither.
Import(ref, quoted) ==
    [t |-> "import", ref |-> ref, name |-> "", quoted |-> quoted,
     paren |-> TRUE]
Rule(name, kind) ==
    [t |-> "rule", ref |-> EmptyRef, name |-> name,
     quoted |-> (kind = "quote"), paren |-> (kind = "paren")]

ACss == Url("", "", FALSE, << "a.css" >>)
BCss == Url("", "", FALSE, << "b.css" >>)
\* what the pattern captures when it runs past the end of the reference
Overrun == Url("", "", FALSE, << "a.css); .p{color:rgb(0,0,0" >>)

StyleTokens ==
    { Import(ACss, FALSE), Import(ACss, TRUE), Import(BCss, FALSE),
      Rule(".a", "plain"), Rule(".p", "paren"), Rule(".q", "quote") }

\* the texts the stylesheets of the site can have
ACssTexts == { << Rule(".b", "plain") >>,
               << Import(BCss, FALSE), Rule(".b", "plain") >> }
BCssText == << Rule(".c", "plain") >>
ErrorPage == << Rule(".e", "plain") >>

StyleBase == Url("https", "ex.com", FALSE, << >>)

\* lines 79-80
ImportUrl(import_url, base_url) ==
    IF ~StartsWithHttp(import_url) THEN urljoin(base_url, import_url)
    ELSE import_url

\* requests.get(import_url): status 0 stands for an exception
Webs ==
    { w \in [{ ImportUrl(ACss, StyleBase), ImportUrl(BCss, StyleBase),
               ImportUrl(Overrun, StyleBase) } ->
                [status : {0, 200, 404},
                 text : ACssTexts \cup {BCssText, ErrorPage, << >>}]] :
        /\ \A u \in DOMAIN w :
              /\ w[u].status = 0 <=> w[u].text = << >>
              /\ w[u].status = 404 => w[u].text = ErrorPage
        /\ w[ImportUrl(ACss, StyleBase)].status = 200 =>
              w[ImportUrl(ACss, StyleBase)].text \in ACssTexts
        /\ w[ImportUrl(BCss, StyleBase)].status = 200 =>
              w[ImportUrl(BCss, StyleBase)].text = BCssText
        /\ w[ImportUrl(Overrun, StyleBase)].status = 200 =>
              w[ImportUrl(Overrun, StyleBase)].text = ErrorPage }

\* re.findall(import_pattern, style_content), from token i on.  With an
\* opening quote the group [^'"]+ ends at the closing quote.  Without one
\* it runs to the next quote character of the text or to its end, and the
\* match then ends at the last ")" before that point: when a later token
\* has a ")" the capture is not the reference but the text up to there,
\* and the search goes on behind it.
RECURSIVE FindImports(_, _)
FindImports(text, i) ==
    IF i > Len(text) THEN << >>
    ELSE IF text[i].t # "import" THEN FindImports(text, i + 1)
    ELSE IF text[i].quoted
         THEN << text[i].ref >> \o FindImports(text, i + 1)
    ELSE LET quotes == { j \in (i + 1) .. Len(text) : text[j].quoted }
             stop == IF quotes = {} THEN Len(text) + 1
                     ELSE CHOOSE j \in quotes : \A q \in quotes : j <= q
             parens == { k \in i .. (stop - 1) : text[k].paren }
             last == CHOOSE k \in parens : \A q \in parens : q <= k
         IN  IF last = i
             THEN << text[i].ref >> \o FindImports(text, i + 1)
             ELSE << Overrun >> \o FindImports(text, last + 1)

\* a variant that puts the original text first
JoinCss_original_first(imported, style_content) == style_content \o imported

\* lines 88-92: the imported texts, then the original text
JoinCss(imported, style_content) == imported \o style_content

importOthersFixed ==
    UNCHANGED << handlerVars, cssVars, assetVars, structVars, geminiVars,
                 bundleVars >>

\* lines 74-76
FindAll ==
    /\ style_out.pc = "findall"
    /\ style_out' = [style_out EXCEPT
                       !.imports = FindImports(style_in, 1),
                       !.pc = "loop"]
    /\ UNCHANGED << style_in, web >>
    /\ importOthersFixed

\* lines 78-86: one iteration of the loop over the captured urls
FetchImport ==
    /\ style_out.pc = "loop"
    /\ Len(style_out.requested) < Len(style_out.imports)
    /\ LET import_url ==
              ImportUrl(style_out.imports[Len(style_out.requested) + 1],
                        StyleBase)
           resp == web[import_url]
       IN  style_out' = [style_out EXCEPT
                           !.requested = Append(@, import_url),
                           !.css_content =
                               IF resp.status = 200 THEN @ \o resp.text
                               ELSE @]
    /\ UNCHANGED << style_in, web >>
    /\ importOthersFixed

\* lines 88-92
ReturnStyle ==
    /\ style_out.pc = "loop"
    /\ Len(style_out.requested) = Len(style_out.imports)
    /\ style_out' = [style_out EXCEPT
                       !.text = JoinCss(style_out.css_content, style_in),
                       !.pc = "done"]
    /\ UNCHANGED << style_in, web >>
    /\ importOthersFixed

StyleTexts == UNION { [1 .. n -> StyleTokens] : n \in 1 .. MaxTokens }

InitImport ==
    /\ style_in \in StyleTexts
    /\ web \in Webs
    /\ style_out = [NotCalled EXCEPT !.pc = "findall"]
    /\ handlerIdle /\ cssIdle /\ assetIdle /\ structIdle /\ geminiIdle
    /\ bundleIdle

NextImport == FindAll \/ FetchImport \/ ReturnStyle

SpecImport == InitImport /\ [][NextImport]_vars

\* sub occurs in text as a run of tokens
Contains(text, sub) ==
    \E k \in 0 .. (Len(text) - Len(sub)) :
       SubSeq(text, k + 1, k + Len(sub)) = sub

EndsWith(text, sub) ==
    /\ Len(sub) <= Len(text)
    /\ SubSeq(text, Len(text) - Len(sub) + 1, Len(text)) = sub

AUrl == ImportUrl(ACss, StyleBase)
BUrl == ImportUrl(BCss, StyleBase)

\* the case of the claim: the stylesheet imports a.css and nothing else,
\* a.css imports b.css, and both are reachable
ImportsChain ==
    /\ style_out.pc = "done"
    /\ style_out.imports = << ACss >>
    /\ web[AUrl].status = 200
    /\ Contains(web[AUrl].text, << Import(BCss, FALSE) >>)
    /\ web[BUrl].status = 200

\* C10 as stated: when the stylesheet imports a.css and a.css imports
\* b.css, the extracted text contains the text of a.css and the text of
\* b.css, before the original text.
C10_Original ==
    ImportsChain =>
       /\ Contains(style_out.text, web[AUrl].text)
       /\ Contains(style_out.text, web[BUrl].text)
       /\ EndsWith(style_out.text, style_in)

\* C10 amended: import handling is one level deep.  The extracted text is
\* the original text preceded by the text of each stylesheet whose url
\* the import pattern captured in the original text and whose fetch
\* answered 200; only those urls are requested.  When the stylesheet
\* imports a.css and a.css imports b.css, the result is the text of a.css
\* (its @import of b.css included, as text) followed by the original
\* text: b.css is not requested and its text is not in the result.
C10_OneLevelImports ==
    style_out.pc = "done" =>
       /\ EndsWith(style_out.text, style_in)
       /\ Len(style_out.requested) = Len(style_out.imports)
       /\ \A i \in 1 .. Len(style_out.requested) :
             /\ \E k \in 1 .. Len(style_in) :
                   /\ style_in[k].t = "import"
                   /\ style_out.requested[i] \in
                         { ImportUrl(style_in[k].ref, StyleBase),
                           ImportUrl(Overrun, StyleBase) }
             /\ web[style_out.requested[i]].status = 200 =>
                   Contains(SubSeq(style_out.text, 1,
                                   Len(style_out.text) - Len(style_in)),
                            web[style_out.requested[i]].text)
       /\ ImportsChain =>
             /\ style_out.text = web[AUrl].text \o style_in
             /\ style_out.requested = << AUrl >>
             /\ ~Contains(style_out.text, web[BUrl].text)

C10_Witness ==
    /\ ImportsChain
    /\ style_in = << Import(ACss, FALSE), Rule(".a", "plain") >>
    /\ style_out.text = << Import(BCss, FALSE), Rule(".b", "plain"),
                           Import(ACss, FALSE), Rule(".a", "plain") >>

(***************************************************************************)
(* SpecGemini: generate_html_with_gemini, statement by statement           *)
(*                                                                         *)
(* The text of the model's response is a sequence of tokens, so that the   *)
(* two re.sub calls, strip() and startswith() are computed on it.          *)
(***************************************************************************)
MaxText == 3

\* the tokens: FenceHtml is three backquotes, html and a newline; Fence is
\* three backquotes; Newline is one newline character
FenceHtml == "fence-html-LF"
Fence     == "fence"
Newline   == "LF"
Space     == " "
Doctype   == "<!DOCTYPE html>"
OtherText == "<html>"
TextTokens == {FenceHtml, Fence, Newline, Space, Doctype, OtherText}
Whitespace == {Newline, Space}

ResponseTexts == UNION { [1..n -> TextTokens] : n \in 0..MaxText }

\* what model.generate_content does: it raises (no api key in
\* initialize_gemini, quota exhausted, server error) or gives a response
GeminiReplies ==
    { [what |-> w, text |-> << >>] : w \in {"nokey", "quota", "server"} }
    \cup { [what |-> "text", text |-> t] : t \in ResponseTexts }

GeminiRaises(w) ==
    CASE w = "nokey"  -> NoApiKeyMsg
      [] w = "quota"  -> QuotaExceededMsg
      [] w = "server" -> ServerErrorMsg

\* line 356: re.sub removes every FenceHtml and every Fence
StripFences(t) == SelectSeq(t, LAMBDA k : k \notin {FenceHtml, Fence})

\* the number of newlines t begins with
RECURSIVE LeadingNewlines(_)
LeadingNewlines(t) ==
    IF t # << >> /\ Head(t) = Newline THEN 1 + LeadingNewlines(Tail(t))
    ELSE 0

\* line 357: re.sub replaces three or more newlines in a row by two
RECURSIVE CollapseNewlines(_)
CollapseNewlines(t) ==
    IF t = << >> THEN << >>
    ELSE LET n == LeadingNewlines(t)
         IN  IF n >= 3
             THEN << Newline, Newline >>
                  \o CollapseNewlines(SubSeq(t, n + 1, Len(t)))
             ELSE << Head(t) >> \o CollapseNewlines(Tail(t))

\* str.strip()
RECURSIVE LStrip(_)
LStrip(t) ==
    IF t # << >> /\ Head(t) \in Whitespace THEN LStrip(Tail(t)) ELSE t
RECURSIVE RStrip(_)
RStrip(t) ==
    IF t # << >> /\ t[Len(t)] \in Whitespace
    THEN RStrip(SubSeq(t, 1, Len(t) - 1))
    ELSE t
Strip(t) == RStrip(LStrip(t))

\* str.startswith('<!DOCTYPE html>')
StartsWithDoctype(t) == t # << >> /\ Head(t) = Doctype

geminiOthersFixed ==
    UNCHANGED << handlerVars, cssVars, assetVars, structVars, importVars,
                 bundleVars >>

\* raise inside the try block: control goes to the except clause
Raise(msg) == gemini_run' = [gemini_run EXCEPT !.pc = "except", !.error = msg]

\* lines 289-353: initialize_gemini, generate_content, the test of
\* response.text, html_code = response.text
GeminiCall ==
    /\ gemini_run.pc = "call"
    /\ IF gemini_in.what # "text" THEN Raise(GeminiRaises(gemini_in.what))
       ELSE IF gemini_in.text = << >> THEN Raise(EmptyResponseMsg)
       ELSE gemini_run' = [gemini_run EXCEPT !.pc = "clean",
                                             !.html_code = gemini_in.text]
    /\ UNCHANGED gemini_in
    /\ geminiOthersFixed

\* lines 356-357: the two re.sub calls
GeminiClean ==
    /\ gemini_run.pc = "clean"
    /\ gemini_run' =
         [gemini_run EXCEPT
            !.pc = "validate",
            !.html_code = CollapseNewlines(StripFences(gemini_run.html_code))]
    /\ UNCHANGED gemini_in
    /\ geminiOthersFixed

\* lines 359-367: the two tests of html_code.strip() and the return
GeminiValidate ==
    /\ gemini_run.pc = "validate"
    /\ IF Strip(gemini_run.html_code) = << >> THEN Raise(EmptyCodeMsg)
       ELSE IF ~StartsWithDoctype(Strip(gemini_run.html_code))
       THEN Raise(NotValidMsg)
       ELSE gemini_run' =
              [gemini_run EXCEPT
                 !.pc = "done",
                 !.text = Strip(gemini_run.html_code),
                 !.result = Returned([origin |-> "gemini", body |-> "text"])]
    /\ UNCHANGED gemini_in
    /\ geminiOthersFixed

\* lines 369-379: except Exception as e
GeminiExcept ==
    /\ gemini_run.pc = "except"
    /\ gemini_run' = [gemini_run EXCEPT
                        !.pc = "done",
                        !.result = GeminiError(gemini_run.error)]
    /\ UNCHANGED gemini_in
    /\ geminiOthersFixed

InitGemini ==
    /\ gemini_in \in GeminiReplies
    /\ gemini_run = [NoGeneration EXCEPT !.pc = "call"]
    /\ handlerIdle /\ cssIdle /\ assetIdle /\ structIdle /\ importIdle
    /\ bundleIdle

NextGemini == GeminiCall \/ GeminiClean \/ GeminiValidate \/ GeminiExcept

SpecGemini == InitGemini /\ [][NextGemini]_vars

(***************************************************************************)
(* C11                                                                     *)
(***************************************************************************)
GenerationDone == gemini_run.pc = "done"
GenerationRaised == GenerationDone /\ gemini_run.result.kind = "error"
\* what is left of the response once the fences are stripped
Stripped == Strip(StripFences(gemini_in.text))
\* the three kinds of failure by their cause
EmptyGeneration == gemini_in.what = "text" /\ Stripped = << >>
InvalidGeneration ==
    gemini_in.what = "text" /\ Stripped # << >> /\ ~StartsWithDoctype(Stripped)
RateLimited == gemini_in.what = "quota"

\* C11: a returned string begins with the doctype declaration; an empty
\* response and a response that does not begin with the doctype after fence
\* stripping both raise and are never reported with status 429; a quota or
\* rate signal is reported with status 429 and never as a generic error.
C11_Original ==
    GenerationDone =>
      /\ gemini_run.result.kind = "ok" => StartsWithDoctype(gemini_run.text)
      /\ EmptyGeneration \/ InvalidGeneration =>
            /\ GenerationRaised
            /\ gemini_run.result.status # 429
      /\ RateLimited =>
            /\ GenerationRaised
            /\ gemini_run.result.status = 429

\* the parts of C11 that the code keeps: nothing unusable is returned, every
\* empty or non-doctype response raises, a quota signal is reported as 429
C11_NothingUnusableReturned ==
    GenerationDone =>
      /\ gemini_run.result.kind = "ok" => StartsWithDoctype(gemini_run.text)
      /\ EmptyGeneration \/ InvalidGeneration => GenerationRaised
      /\ RateLimited => GenerationRaised /\ gemini_run.result.status = 429

(***************************************************************************)
(* SpecBundle: the content dictionary, from the page to the prompt         *)
(*                                                                         *)
(* A Python value is a node: a string, a list or a dict.  The items of a   *)
(* dict are its key/value pairs; the items of a list have the key "".      *)
(***************************************************************************)
MaxScripts == 2

Str(x) == [type |-> "str", s |-> x, items |-> << >>]
Entry(k, v) == [k |-> k, v |-> v]
List(xs) == [type |-> "list", s |-> "",
             items |-> [i \in 1 .. Len(xs) |-> Entry("", xs[i])]]
Dict(pairs) == [type |-> "dict", s |-> "", items |-> pairs]

IsContainer(v) == v.type \in {"list", "dict"}

\* bool(v): a string, list or dict is true when it is not empty
NotEmpty(v) == IF IsContainer(v) THEN v.items # << >> ELSE v.s # ""

\* lines 124-134
RECURSIVE clean_empty_content(_), CleanItems(_)
clean_empty_content(content) ==
    IF IsContainer(content)
    THEN [content EXCEPT !.items = CleanItems(content.items)]
    ELSE content
\* the comprehension of lines 127-131 and of line 133, item by item
CleanItems(items) ==
    IF items = << >> THEN << >>
    ELSE LET v == Head(items).v
             keep == /\ NotEmpty(v)
                     /\ (~IsContainer(v) \/ NotEmpty(clean_empty_content(v)))
         IN  (IF keep
              THEN << Entry(Head(items).k, clean_empty_content(v)) >>
              ELSE << >>)
             \o CleanItems(Tail(items))

\* What the page holds:
\*   title        the string of <title>, "" when there is no title
\*   description  <meta name="description">: "absent", "nocontent" (the tag
\*                has no content attribute), "empty" (content=""), "text"
\*   viewport     <meta name="viewport">, likewise
\*   charset      <meta charset=...> is there
\*   header       <header> is there
\*   scripts      the number of <script src=...> elements
MetaKinds == {"absent", "nocontent", "empty", "text"}
Heads == [title : {"", "t"}, description : MetaKinds, viewport : MetaKinds,
          charset : BOOLEAN, header : BOOLEAN, scripts : 0 .. MaxScripts]

\* lines 152-154: tag["content"] if the tag is found, else the default
MetaValue(kind, default) ==
    CASE kind = "absent" -> Str(default)
      [] kind = "empty"  -> Str("")
      [] OTHER           -> Str("value")

\* lines 149-247 for a page that has no style, stylesheet link, image,
\* icon, main or body: the dictionary extract_website_content returns
WebsiteContent(h) ==
    Dict(<< Entry("title", Str(h.title)),
            Entry("meta",
                  Dict(<< Entry("description", MetaValue(h.description, "")),
                          Entry("viewport", MetaValue(h.viewport, "")),
                          Entry("charset",
                                IF h.charset THEN Str("utf-8")
                                ELSE Str("UTF-8")) >>)),
            Entry("styles", List(<< >>)),
            Entry("css_files", List(<< >>)),
            Entry("structure",
                  Dict(IF h.header THEN << Entry("header", Str("<header>")) >>
                       ELSE << >>)),
            Entry("assets",
                  Dict(<< Entry("images", List(<< >>)),
                          Entry("background_images", List(<< >>)),
                          Entry("scripts",
                                List([i \in 1 .. h.scripts |-> Str("s.js")])),
                          Entry("fonts", List(<< >>)),
                          Entry("icons", List(<< >>)) >>)) >>)

bundleOthersFixed ==
    UNCHANGED << handlerVars, cssVars, assetVars, structVars, importVars,
                 geminiVars >>

\* lines 136-249: extract_website_content; tag["content"] raises KeyError
\* for a meta tag without that attribute, answered with 500 at line 249
BundleExtract ==
    /\ bundle.pc = "extract"
    /\ IF "nocontent" \in {head.description, head.viewport}
       THEN bundle' = [bundle EXCEPT !.pc = "failed"]
       ELSE bundle' = [bundle EXCEPT !.pc = "generate",
                                     !.content = WebsiteContent(head)]
    /\ UNCHANGED head
    /\ bundleOthersFixed

\* lines 543 and 311: generate_html_with_gemini(content) serialises the
\* dictionary it is given into the prompt
BundlePrompt ==
    /\ bundle.pc = "generate"
    /\ bundle' = [bundle EXCEPT !.pc = "sent", !.sent = bundle.content]
    /\ UNCHANGED head
    /\ bundleOthersFixed

InitBundle ==
    /\ head \in Heads
    /\ bundle = [NoBundle EXCEPT !.pc = "extract"]
    /\ handlerIdle /\ cssIdle /\ assetIdle /\ structIdle /\ importIdle
    /\ geminiIdle

NextBundle == BundleExtract \/ BundlePrompt

SpecBundle == InitBundle /\ [][NextBundle]_vars

(***************************************************************************)
(* C14                                                                     *)
(***************************************************************************)
Keys(d) == { d.items[i].k : i \in 1 .. Len(d.items) }
Field(d, k) == d.items[CHOOSE i \in 1 .. Len(d.items) : d.items[i].k = k].v

\* v holds, at some depth, a list or dict that is empty
RECURSIVE HasEmptyContainer(_)
HasEmptyContainer(v) ==
    /\ IsContainer(v)
    /\ \E i \in 1 .. Len(v.items) :
          \/ IsContainer(v.items[i].v) /\ ~NotEmpty(v.items[i].v)
          \/ HasEmptyContainer(v.items[i].v)

\* the dictionary d is stripped of the empty content of page h: no
\* description or viewport whose meta tag is absent or has an empty value,
\* and no empty list or dict
Stripped_of(d, h) ==
    /\ \A f \in {"description", "viewport"} :
          h[f] \in {"absent", "empty"} => f \notin Keys(Field(d, "meta"))
    /\ ~HasEmptyContainer(d)

\* C14 as stated: in the dictionary handed to the model, a description or
\* viewport whose meta tag is absent or has an empty value is omitted, and
\* no list or dict is empty (a container that is empty once its children
\* are cleaned is omitted too).
C14_Original == bundle.pc = "sent" => Stripped_of(bundle.sent, head)

\* what clean_empty_content would give: applied to the dictionary of
\* extract_website_content it strips exactly what C14 names; it is called
\* nowhere, and the dictionary reaches the prompt as it was extracted
C14_CleanStripsEmpty ==
    bundle.pc \in {"generate", "sent"} =>
       /\ Stripped_of(clean_empty_content(bundle.content), head)
       /\ bundle.pc = "sent" => bundle.sent = bundle.content
====
